---- MODULE Spec2Model ----
(***************************************************************************)
(* Model of Docs/main.py: class Game, the frame loop of the first-person   *)
(* RTS prototype (handle_events / update / render / run).                  *)
(*                                                                         *)
(* One step of the model is one iteration of the `for event in             *)
(* pygame.event.get()` loop of Game.handle_events, or one of the other     *)
(* statements of the `while self.running` loop of Game.run.                *)
(*                                                                         *)
(* Player, World, UI and ResourceManager live in the package `game`, whose *)
(* code is not part of the source tree at hand; their operations are       *)
(* modelled from the interface the specification gives for them and are    *)
(* marked as such.  Every call Game makes to them is recorded in `calls`.  *)
(*                                                                         *)
(* Texts are the German texts of the source with umlauts transliterated    *)
(* (ae, oe, ue); an f-string is a format plus its argument.                *)
(***************************************************************************)
EXTENDS Integers, Sequences, FiniteSets, TLC

VARIABLES
    game_state,                 \* Game.game_state
    running,                    \* Game.running
    dt,                         \* Game.dt
    mouse_visible,              \* pygame.mouse.set_visible(..)
    event_grab,                 \* pygame.event.set_grab(..)
    building_menu_open,         \* ui.building_menu_open
    building_mode,              \* ui.building_mode
    ship_inventory_open,        \* ui.ship_inventory_open
    building_interaction_open,  \* ui.building_interaction_open
    building_type_to_place,     \* ui.building_type_to_place
    selected_building_type,     \* ui.selected_building_type
    selected_building,          \* the building the interaction panel is bound to (index, 0 = None)
    feedback_messages,          \* the UI's feedback queue
    cursor_pos,                 \* ui.cursor_pos
    player,                     \* player.x, player.y, player.z
    nearby_objects,             \* player.nearby_objects
    buildings,                  \* world.buildings, in enumeration order
    pc,                         \* position in Game.run
    pending,                    \* events of the current poll not yet iterated
    event,                      \* the event of the last loop iteration, with the UI flags it met
    locals,                     \* local variables of that iteration
    calls,                      \* calls to pygame/player/world/ui made by the last step, in order
    esc_count                   \* number of K_ESCAPE keydowns processed so far, modulo 2

vars == << game_state, running, dt, mouse_visible, event_grab,
           building_menu_open, building_mode, ship_inventory_open,
           building_interaction_open, building_type_to_place,
           selected_building_type, selected_building, feedback_messages,
           cursor_pos, player, nearby_objects, buildings, pc, pending,
           event, locals, calls, esc_count >>

game_vars  == << game_state, running, mouse_visible, event_grab >>
flag_vars  == << building_menu_open, building_mode, ship_inventory_open,
                 building_interaction_open >>
ui_vars    == << building_menu_open, building_mode, ship_inventory_open,
                 building_interaction_open, building_type_to_place,
                 selected_building_type, selected_building >>
world_vars == << player, nearby_objects, buildings >>

----------------------------------------------------------------------------
(* Bounds of the model *)

MaxPoll == 2          \* events returned by one pygame.event.get()
MaxFeedback == 1      \* live feedback messages kept (oldest dropped first)
MaxBuildings == 2     \* buildings in the world
MaxNearby == 1        \* entries of player.nearby_objects

----------------------------------------------------------------------------
(* Values *)

None == "None"

InteractionRadius == 50               \* `distance < 50`
FeedbackLifetime == 2                 \* lifetime of a pushed message, in time units
FrameTimes == {1, 2}                  \* values of clock.tick(60) / 1000.0, in time units
PlayerY == 2                          \* start_y, the eye height 1.8 in whole units

MousePositions == { <<0, 0>>, <<400, 300>> }     \* pygame.mouse.get_pos()
PlayerPositions == { [x |-> 0, y |-> PlayerY, z |-> 0],
                     [x |-> 30, y |-> PlayerY, z |-> 0] }

KnownBuildingTypes == {"Markt", "Raffinerie", "Oelplattform", "Kobaltanreicherung"}
BuildingTypes == KnownBuildingTypes \cup {"Werft"}
ResourceTypes == {"Kobalt"}
PlaceableTypes == {"Raffinerie"}

Building(x, y, z, t) == [x |-> x, y |-> y, z |-> z, type |-> t]

\* positions a building can have: planar distance from (0,0) is 30, 30, 30,
\* 40, 50, 60; from (30,0) it is 0, 42.4, 0, 50, 40, 30
BuildingSites == { Building(30, 0, 0, "Markt"),  Building(0, 0, 30, "Markt"),
                   Building(30, 40, 0, "Markt"), Building(0, 0, 40, "Markt"),
                   Building(30, 0, 40, "Markt"), Building(60, 0, 0, "Markt") }

SeqsUpTo(S, n) == UNION { [1..k -> S] : k \in 0..n }

NearbyObject(kind, t) == [type |-> kind, object_type |-> t]
NearbyObjects == { NearbyObject("resource", t) : t \in ResourceTypes }
                 \cup { NearbyObject("building", t) : t \in BuildingTypes }

Text(fmt, arg) == [fmt |-> fmt, arg |-> arg]
NoText == Text("", "")
Call(op, text, kind, n) == [op |-> op, text |-> text, kind |-> kind, n |-> n]

Flags == << building_menu_open, building_mode, ship_inventory_open,
            building_interaction_open >>
Event(type, key) == [type |-> type, key |-> key, flags |-> Flags,
                     state |-> game_state]
NoLocals == [nearest_building |-> 0, interact_result |-> FALSE,
             clicked_result |-> FALSE, forwarded |-> FALSE]


NoEvent == [type |-> "none", key |-> "", flags |-> <<FALSE, FALSE, FALSE, FALSE>>,
            state |-> "none"]

WorldsUpTo(n) == SeqsUpTo(BuildingSites, n)
NearbyLists == SeqsUpTo(NearbyObjects, MaxNearby)

----------------------------------------------------------------------------
(* The UI's feedback queue (game.ui) *)

FeedbackMessage(text, kind) == [text |-> text, type |-> kind, time |-> FeedbackLifetime]

\* ui.add_feedback_message(text, feedback_type=kind)
add_feedback_message(queue, text, kind) ==
    LET pushed == Append(queue, FeedbackMessage(text, kind))
    IN  IF Len(pushed) > MaxFeedback THEN Tail(pushed) ELSE pushed

\* ui.update_feedback_messages(dt)
update_feedback_messages(queue, d) ==
    LET aged == [i \in 1..Len(queue) |-> [queue[i] EXCEPT !.time = @ - d]]
    IN  SelectSeq(aged, LAMBDA m : m.time > 0)

----------------------------------------------------------------------------
(* handle_events, K_b: the scan for the nearest building (lines 83-92) *)

\* the distance over all three coordinates
DistanceSq_Spatial(p, b) ==
    (p.x - b.x) * (p.x - b.x) + (p.y - b.y) * (p.y - b.y) + (p.z - b.z) * (p.z - b.z)

\* (player.x - building.x) ** 2 + (player.z - building.z) ** 2, the square of
\* `distance`; x ** 0.5 is strictly increasing, so `distance < d` is decided
\* on the squares
DistanceSq(p, b) == (p.x - b.x) * (p.x - b.x) + (p.z - b.z) * (p.z - b.z)

\* float('inf') is <<>>, a finite min_distance d is <<d>> (squared)
Infinity == << >>

\* `distance <= min_distance`
Below_OrEqual(d, min_distance) == min_distance = Infinity \/ d <= min_distance[1]

\* `distance < min_distance`
Below(d, min_distance) == min_distance = Infinity \/ d < min_distance[1]

\* `distance < min_distance and distance < 50`
Closer(d, min_distance) ==
    Below(d, min_distance) /\ d < InteractionRadius * InteractionRadius

\* the for loop from building i on; the result is nearest_building, the index
\* of the building in world.buildings (0 for None)
RECURSIVE ScanBuildings(_, _, _, _, _)
ScanBuildings(bs, p, i, nearest_building, min_distance) ==
    IF i > Len(bs) THEN nearest_building
    ELSE LET distance == DistanceSq(p, bs[i])
         IN  IF Closer(distance, min_distance)
             THEN ScanBuildings(bs, p, i + 1, i, <<distance>>)
             ELSE ScanBuildings(bs, p, i + 1, nearest_building, min_distance)

NearestBuilding(bs, p) == ScanBuildings(bs, p, 1, 0, Infinity)

----------------------------------------------------------------------------
(* handle_events, K_e: the feedback for an interaction (lines 104-139) *)

\* lines 111-121: the message for a building of type t, interact_result true
BuildingSuccess(t) ==
    IF t = "Markt" THEN <<Text("Ressourcen verkauft!", ""), "success">>
    ELSE IF t = "Raffinerie" THEN <<Text("Oel zu Kraftstoff verarbeitet!", ""), "success">>
    ELSE IF t = "Oelplattform" THEN <<Text("Oel abgeholt!", ""), "success">>
    ELSE IF t = "Kobaltanreicherung" THEN <<Text("Kobalt verarbeitet!", ""), "success">>
    ELSE <<Text("Mit {} interagiert!", t), "success">>

\* lines 127-137 with the feedback type of the last branch taken from the
\* branches above it
BuildingFailure_AllWarnings(t) ==
    IF t = "Markt" THEN <<Text("Keine Ressourcen zum Verkaufen!", ""), "warning">>
    ELSE IF t = "Raffinerie" THEN <<Text("Benoetige Oel im Frachtraum!", ""), "warning">>
    ELSE IF t = "Oelplattform" THEN <<Text("Frachtraum voll!", ""), "warning">>
    ELSE IF t = "Kobaltanreicherung" THEN <<Text("Benoetige Kobalt im Frachtraum!", ""), "warning">>
    ELSE <<Text("Interaktion nicht moeglich!", ""), "warning">>

\* lines 127-137: the message for a building of type t, interact_result false
BuildingFailure(t) ==
    IF t = "Markt" THEN <<Text("Keine Ressourcen zum Verkaufen!", ""), "warning">>
    ELSE IF t = "Raffinerie" THEN <<Text("Benoetige Oel im Frachtraum!", ""), "warning">>
    ELSE IF t = "Oelplattform" THEN <<Text("Frachtraum voll!", ""), "warning">>
    ELSE IF t = "Kobaltanreicherung" THEN <<Text("Benoetige Kobalt im Frachtraum!", ""), "warning">>
    ELSE <<Text("Interaktion nicht moeglich!", ""), "error">>

\* the message of line 139 with the feedback type of its neighbours
NothingNearby_Warning == <<Text("Nichts in der Naehe!", ""), "warning">>

\* line 139: the message for an empty nearby_objects
NothingNearby == <<Text("Nichts in der Naehe!", ""), "info">>

\* lines 104-139: the calls to ui.add_feedback_message made for nearby_objects
\* `nearby` and interact_result `result`, a sequence of at most one
\* <<text, feedback_type>>
InteractionFeedback(nearby, result) ==
    IF nearby # << >>
    THEN LET obj == nearby[1]
         IN  IF result
             THEN IF obj.type = "resource" THEN << >>
                  ELSE IF obj.type = "building"
                  THEN << BuildingSuccess(obj.object_type) >>
                  ELSE << >>
             ELSE IF obj.type = "resource"
                  THEN << <<Text("Benoetige Gebaeude fuer {}!", obj.object_type), "error">> >>
                  ELSE IF obj.type = "building"
                  THEN << BuildingFailure(obj.object_type) >>
                  ELSE << >>
    ELSE << NothingNearby >>

----------------------------------------------------------------------------
(* handle_events, MOUSEBUTTONDOWN: the outcome of a forwarded click        *)
(* (lines 148-160), read after ui.handle_mouse_click returned              *)

\* the outcome read from the two fields alone, either of them being enough
ClickFeedback_Either(clicked_result, mode, type_to_place) ==
    IF ~mode \/ type_to_place = None THEN "placed"
    ELSE IF ~clicked_result THEN "rejected"
    ELSE "silent"

\* "placed": the success message and the reset of selected_building_type;
\* "rejected": the error message; "silent": neither
ClickFeedback(clicked_result, mode, type_to_place) ==
    IF clicked_result /\ mode
    THEN IF ~mode /\ type_to_place = None THEN "placed"
         ELSE IF ~clicked_result THEN "rejected"
         ELSE "silent"
    ELSE "silent"

\* line 143 without the test of game_state
ClickForwarded_AnyMode(state, menu, mode, inventory, interaction) ==
    menu \/ mode \/ inventory \/ interaction

\* line 143: the click is handed to the UI
ClickForwarded(state, menu, mode, inventory, interaction) ==
    state = "playing" /\ (menu \/ mode \/ inventory \/ interaction)

\* line 163 without the test of game_state
MotionForwarded_AnyMode(state, menu, inventory, interaction) ==
    ~(menu \/ inventory \/ interaction)

\* line 163: the motion is handed to the player
MotionForwarded(state, menu, inventory, interaction) ==
    state = "playing" /\ ~(menu \/ inventory \/ interaction)

----------------------------------------------------------------------------
(* The UI's panels (game.ui) *)

\* the states ui.handle_mouse_click(pos, button) can leave the UI and the
\* world in, with the boolean it returns ("the click was consumed by a
\* panel"): the click misses; a type is chosen in the building menu, which
\* enters placement mode; a placement is attempted (validated by the world)
\* and succeeds, is rejected, or leaves one of flag and pending type behind;
\* the ship inventory or the building interaction panel is closed
UiState == [menu |-> building_menu_open, mode |-> building_mode,
            inventory |-> ship_inventory_open,
            interaction |-> building_interaction_open,
            type_to_place |-> building_type_to_place,
            selected_type |-> selected_building_type,
            bound |-> selected_building,
            world |-> buildings]

handle_mouse_click(ui, sites) ==
    { [after |-> ui, result |-> r] : r \in BOOLEAN }
    \cup (IF ui.menu
          THEN { [after |-> [ui EXCEPT !.menu = FALSE, !.mode = TRUE,
                                      !.type_to_place = t, !.selected_type = t],
                  result |-> TRUE] : t \in PlaceableTypes }
          ELSE {})
    \cup (IF ui.mode /\ ui.type_to_place # None /\ Len(ui.world) < MaxBuildings
          THEN { [after |-> [ui EXCEPT !.mode = FALSE, !.type_to_place = None,
                                      !.world = Append(@, [b EXCEPT !.type = ui.type_to_place])],
                  result |-> r] : r \in BOOLEAN, b \in sites }
          ELSE {})
    \cup (IF ui.mode
          THEN { [after |-> [ui EXCEPT !.mode = FALSE], result |-> r] : r \in BOOLEAN }
               \cup { [after |-> [ui EXCEPT !.type_to_place = None], result |-> r] : r \in BOOLEAN }
          ELSE {})
    \cup (IF ui.inventory
          THEN { [after |-> [ui EXCEPT !.inventory = FALSE], result |-> TRUE] }
          ELSE {})
    \cup (IF ui.interaction
          THEN { [after |-> [ui EXCEPT !.interaction = FALSE, !.bound = 0], result |-> TRUE] }
          ELSE {})

----------------------------------------------------------------------------
(* Game.__init__ (lines 11-44), for a world `bs` and a player at `p` *)

InitGame(bs, p) ==
    /\ game_state = "playing"
    /\ running = TRUE
    /\ dt = 0
    /\ mouse_visible = FALSE
    /\ event_grab = TRUE
    /\ building_menu_open = FALSE
    /\ building_mode = FALSE
    /\ ship_inventory_open = FALSE
    /\ building_interaction_open = FALSE
    /\ building_type_to_place = None
    /\ selected_building_type = None
    /\ selected_building = 0
    /\ feedback_messages = << >>
    /\ cursor_pos = <<0, 0>>
    /\ player = p
    /\ nearby_objects = << >>
    /\ buildings = bs
    /\ pc = "loop"
    /\ pending = 0
    /\ event = NoEvent
    /\ locals = NoLocals
    /\ calls = << >>
    /\ esc_count = 0

StartPosition == [x |-> 0, y |-> PlayerY, z |-> 0]


----------------------------------------------------------------------------
(* Game.handle_events (lines 46-167): one iteration of the for loop *)

\* the loop takes the next event `e`; line 167 ends every iteration
Iterate(e) ==
    /\ pc = "handle_events"
    /\ pending > 0
    /\ pending' = pending - 1
    /\ pc' = pc
    /\ event' = e
    /\ cursor_pos' \in MousePositions
    /\ dt' = dt

\* the iteration reports the event it could not route
Dropped_Reported ==
    /\ feedback_messages' =
           add_feedback_message(feedback_messages, Text("Unbekanntes Ereignis", ""), "error")
    /\ calls' = << Call("ui.add_feedback_message", Text("Unbekanntes Ereignis", ""), "error", 0) >>
    /\ locals' = NoLocals
    /\ UNCHANGED << ui_vars, world_vars >>

\* the iteration leaves the UI, the player and the world alone
Dropped ==
    /\ UNCHANGED << ui_vars, feedback_messages, world_vars >>
    /\ locals' = NoLocals
    /\ calls' = << >>

\* lines 48-49
Quit ==
    /\ Iterate(Event("QUIT", ""))
    /\ running' = FALSE
    /\ UNCHANGED << game_state, mouse_visible, event_grab, esc_count >>
    /\ Dropped

\* the pause toggle without the release of the mouse
TogglePause_KeepGrab ==
    /\ game_state' = IF game_state = "playing" THEN "paused" ELSE "playing"
    /\ mouse_visible' = (game_state = "playing")
    /\ event_grab' = TRUE

\* the pause toggle leaving "paused" for "menu"
TogglePause_ToMenu ==
    /\ game_state' = IF game_state = "playing" THEN "paused" ELSE "menu"
    /\ mouse_visible' = (game_state = "playing")
    /\ event_grab' = ~(game_state = "playing")

\* lines 53-61
TogglePause ==
    /\ game_state' = IF game_state = "playing" THEN "paused" ELSE "playing"
    /\ mouse_visible' = (game_state = "playing")
    /\ event_grab' = ~(game_state = "playing")

\* the ship slots counted from one
SwitchShip_OneBased(index) ==
    /\ calls' = << Call("player.switch_ship", NoText, "", index + 1) >>
    /\ locals' = NoLocals
    /\ UNCHANGED << ui_vars, feedback_messages, world_vars >>

\* lines 65-70
SwitchShip(index) ==
    /\ calls' = << Call("player.switch_ship", NoText, "", index) >>
    /\ locals' = NoLocals
    /\ UNCHANGED << ui_vars, feedback_messages, world_vars >>

\* ui.toggle_building_menu(): flips the flag
toggle_building_menu == building_menu_open' = ~building_menu_open

\* ui.toggle_ship_inventory(): flips the flag
toggle_ship_inventory == ship_inventory_open' = ~ship_inventory_open

\* lines 73-74
ToggleBuildingMenu ==
    /\ toggle_building_menu
    /\ calls' = << Call("ui.toggle_building_menu", NoText, "", 0) >>
    /\ locals' = NoLocals
    /\ UNCHANGED << building_mode, ship_inventory_open, building_interaction_open,
                    building_type_to_place, selected_building_type,
                    selected_building, feedback_messages, world_vars >>

\* lines 77-78
ToggleShipInventory ==
    /\ toggle_ship_inventory
    /\ calls' = << Call("ui.toggle_ship_inventory", NoText, "", 0) >>
    /\ locals' = NoLocals
    /\ UNCHANGED << building_menu_open, building_mode, building_interaction_open,
                    building_type_to_place, selected_building_type,
                    selected_building, feedback_messages, world_vars >>

\* ui.toggle_building_interaction(building): opens the panel, bound to it
toggle_building_interaction(building) ==
    /\ building_interaction_open' = TRUE
    /\ selected_building' = building

\* `if nearest_building` negated
Found_Negated(nearest_building) == nearest_building = 0

\* line 94: `if nearest_building`
Found(nearest_building) == nearest_building # 0

\* lines 81-97
NearbyBuildingMenu ==
    LET nearest_building == NearestBuilding(buildings, player)
    IN  /\ locals' = [NoLocals EXCEPT !.nearest_building = nearest_building]
        /\ IF Found(nearest_building)
           THEN /\ toggle_building_interaction(nearest_building)
                /\ calls' = << Call("ui.toggle_building_interaction", NoText, "",
                                    nearest_building) >>
                /\ feedback_messages' = feedback_messages
           ELSE /\ feedback_messages' =
                       add_feedback_message(feedback_messages,
                                            Text("Kein Gebaeude in der Naehe", ""), "warning")
                /\ calls' = << Call("ui.add_feedback_message",
                                    Text("Kein Gebaeude in der Naehe", ""), "warning", 0) >>
                /\ UNCHANGED << building_interaction_open, selected_building >>
        /\ UNCHANGED << building_menu_open, building_mode, ship_inventory_open,
                        building_type_to_place, selected_building_type, world_vars >>

RECURSIVE PushAll(_, _)
PushAll(queue, msgs) ==
    IF msgs = << >> THEN queue
    ELSE PushAll(add_feedback_message(queue, msgs[1][1], msgs[1][2]), Tail(msgs))

\* player.interact(): returns a boolean and leaves player.nearby_objects as
\* it is or refreshed
player_interact(nearbys) ==
    { [result |-> r, nearby |-> n] : r \in BOOLEAN, n \in {nearby_objects} \cup nearbys }

\* lines 100-139 with nearby_objects read before player.interact() is called
Interact_ReadBefore(nearbys) ==
    \E interaction \in player_interact(nearbys) :
        LET interact_result == interaction.result
            msgs == InteractionFeedback(nearby_objects, interact_result)
        IN  /\ nearby_objects' = interaction.nearby
            /\ locals' = [NoLocals EXCEPT !.interact_result = interact_result]
            /\ feedback_messages' = PushAll(feedback_messages, msgs)
            /\ calls' = << Call("player.interact", NoText, "", 0) >>
                        \o [i \in 1..Len(msgs) |->
                              Call("ui.add_feedback_message", msgs[i][1], msgs[i][2], 0)]
            /\ UNCHANGED << ui_vars, player, buildings >>

\* lines 100-139
Interact(nearbys) ==
    \E interaction \in player_interact(nearbys) :
        LET interact_result == interaction.result
            msgs == InteractionFeedback(interaction.nearby, interact_result)
        IN  /\ nearby_objects' = interaction.nearby
            /\ locals' = [NoLocals EXCEPT !.interact_result = interact_result]
            /\ feedback_messages' = PushAll(feedback_messages, msgs)
            /\ calls' = << Call("player.interact", NoText, "", 0) >>
                        \o [i \in 1..Len(msgs) |->
                              Call("ui.add_feedback_message", msgs[i][1], msgs[i][2], 0)]
            /\ UNCHANGED << ui_vars, player, buildings >>

\* lines 65-139 with K_ESCAPE closing or opening the building menu as well
Route_EscapeMenu(key, nearbys) ==
    CASE key = "K_1" -> SwitchShip(0)
      [] key = "K_2" -> SwitchShip(1)
      [] key = "K_3" -> SwitchShip(2)
      [] key = "K_SPACE" -> ToggleBuildingMenu
      [] key = "K_ESCAPE" -> ToggleBuildingMenu
      [] key = "K_i" -> ToggleShipInventory
      [] key = "K_b" -> NearbyBuildingMenu
      [] key = "K_e" -> Interact(nearbys)
      [] OTHER -> Dropped

\* lines 65-139: the if/elif chain on event.key
Route(key, nearbys) ==
    CASE key = "K_1" -> SwitchShip(0)
      [] key = "K_2" -> SwitchShip(1)
      [] key = "K_3" -> SwitchShip(2)
      [] key = "K_SPACE" -> ToggleBuildingMenu
      [] key = "K_i" -> ToggleShipInventory
      [] key = "K_b" -> NearbyBuildingMenu
      [] key = "K_e" -> Interact(nearbys)
      [] OTHER -> Dropped

\* lines 52-139
KeyDown(key, nearbys) ==
    /\ Iterate(Event("KEYDOWN", key))
    /\ running' = running
    /\ esc_count' = IF key = "K_ESCAPE" THEN (esc_count + 1) % 2 ELSE esc_count
    /\ IF key = "K_ESCAPE"
       THEN TogglePause
       ELSE UNCHANGED << game_state, mouse_visible, event_grab >>
    /\ IF game_state' = "playing"
       THEN Route(key, nearbys)
       ELSE Dropped


\* lines 142-160
MouseButtonDown(sites) ==
    /\ Iterate(Event("MOUSEBUTTONDOWN", ""))
    /\ UNCHANGED << game_state, running, mouse_visible, event_grab, esc_count >>
    /\ IF ClickForwarded(game_state, building_menu_open, building_mode,
                         ship_inventory_open, building_interaction_open)
       THEN \E click \in handle_mouse_click(UiState, sites) :
              LET clicked_result == click.result
                  ui == click.after
                  outcome == ClickFeedback(clicked_result, ui.mode, ui.type_to_place)
                  placed == Text("{} platziert!", ui.selected_type)
                  rejected == Text("Gebaeude kann hier nicht platziert werden", "")
              IN  /\ building_menu_open' = ui.menu
                  /\ building_mode' = ui.mode
                  /\ ship_inventory_open' = ui.inventory
                  /\ building_interaction_open' = ui.interaction
                  /\ building_type_to_place' = ui.type_to_place
                  /\ selected_building' = ui.bound
                  /\ buildings' = ui.world
                  /\ selected_building_type' =
                         IF outcome = "placed" THEN None ELSE ui.selected_type
                  /\ feedback_messages' =
                         CASE outcome = "placed" ->
                                add_feedback_message(feedback_messages, placed, "success")
                           [] outcome = "rejected" ->
                                add_feedback_message(feedback_messages, rejected, "error")
                           [] OTHER -> feedback_messages
                  /\ calls' = << Call("ui.handle_mouse_click", NoText, "", 0) >> \o
                         (CASE outcome = "placed" ->
                                << Call("ui.add_feedback_message", placed, "success", 0) >>
                            [] outcome = "rejected" ->
                                << Call("ui.add_feedback_message", rejected, "error", 0) >>
                            [] OTHER -> << >>)
                  /\ locals' = [NoLocals EXCEPT !.clicked_result = clicked_result,
                                                !.forwarded = TRUE]
                  /\ UNCHANGED << player, nearby_objects >>
       ELSE Dropped

\* lines 163-164
MouseMotion ==
    /\ Iterate(Event("MOUSEMOTION", ""))
    /\ UNCHANGED << game_state, running, mouse_visible, event_grab, esc_count >>
    /\ IF MotionForwarded(game_state, building_menu_open, ship_inventory_open,
                          building_interaction_open)
       THEN /\ calls' = << Call("player.handle_mouse_movement", NoText, "", 0) >>
            /\ locals' = [NoLocals EXCEPT !.forwarded = TRUE]
            /\ UNCHANGED << ui_vars, feedback_messages, world_vars >>
       ELSE Dropped

\* an event of any other type (KEYUP, MOUSEBUTTONUP, ...)
OtherEvent ==
    /\ Iterate(Event("KEYUP", ""))
    /\ UNCHANGED << game_state, running, mouse_visible, event_grab, esc_count >>
    /\ Dropped

\* the for loop of handle_events is exhausted
EndEvents ==
    /\ pc = "handle_events"
    /\ pending = 0
    /\ pc' = "update"
    /\ event' = NoEvent
    /\ locals' = NoLocals
    /\ calls' = << >>
    /\ UNCHANGED << game_vars, dt, ui_vars, feedback_messages, cursor_pos,
                    world_vars, pending, esc_count >>

----------------------------------------------------------------------------
(* Game.update (lines 169-189) *)

\* player.move(dt, keys): recomputes the player's position and nearby_objects
player_move(positions, nearbys) ==
    /\ player' \in positions
    /\ nearby_objects' \in nearbys

\* lines 180-189 with the clock read again for the world
UpdateCalls_Retick(d) ==
    << Call("player.move", NoText, "", d),
       Call("world.update", NoText, "", 3 - d),
       Call("resource_manager.update", NoText, "", d),
       Call("ui.update_feedback_messages", NoText, "", d) >>

\* lines 180-189: the update calls of a tick, each with its delta time
UpdateCalls(d) ==
    << Call("player.move", NoText, "", d),
       Call("world.update", NoText, "", d),
       Call("resource_manager.update", NoText, "", d),
       Call("ui.update_feedback_messages", NoText, "", d) >>

\* the updates run in every game mode
Updating_Always(state) == TRUE

\* line 178: `if self.game_state == "playing"`
Updating(state) == state = "playing"

\* world.update and resource_manager.update run the economy, which is not
\* part of the model
Update(times, positions, nearbys) ==
    /\ pc = "update"
    /\ pc' = "render"
    /\ dt' \in times
    /\ IF Updating(game_state)
       THEN /\ player_move(positions, nearbys)
            /\ feedback_messages' = update_feedback_messages(feedback_messages, dt')
            /\ calls' = UpdateCalls(dt')
       ELSE /\ UNCHANGED << player, nearby_objects, feedback_messages >>
            /\ calls' = << >>
    /\ event' = NoEvent
    /\ locals' = NoLocals
    /\ UNCHANGED << game_vars, ui_vars, cursor_pos, buildings, pending, esc_count >>

----------------------------------------------------------------------------
(* Game.render (lines 191-205) *)

Render ==
    /\ pc = "render"
    /\ pc' = "loop"
    /\ calls' = IF game_state = "playing" \/ game_state = "paused"
                THEN << Call("world.render", NoText, "", 0),
                        Call("ui.render", NoText, game_state, 0) >>
                ELSE IF game_state = "menu"
                THEN << Call("ui.render_menu", NoText, "", 0) >>
                ELSE << >>
    /\ event' = NoEvent
    /\ locals' = NoLocals
    /\ UNCHANGED << game_vars, dt, ui_vars, feedback_messages, cursor_pos,
                    world_vars, pending, esc_count >>

----------------------------------------------------------------------------
(* Game.run (lines 207-214) *)

\* `while True`: the events of another tick are polled whatever `running` is
LoopEnter_Always ==
    /\ pc = "loop"
    /\ pc' = "handle_events"
    /\ pending' \in 0..MaxPoll
    /\ event' = NoEvent
    /\ locals' = NoLocals
    /\ calls' = << >>
    /\ UNCHANGED << game_vars, dt, ui_vars, feedback_messages, cursor_pos,
                    world_vars, esc_count >>

\* `while self.running` holds; handle_events polls the events of the tick
LoopEnter ==
    /\ pc = "loop"
    /\ running
    /\ pc' = "handle_events"
    /\ pending' \in 0..MaxPoll
    /\ event' = NoEvent
    /\ locals' = NoLocals
    /\ calls' = << >>
    /\ UNCHANGED << game_vars, dt, ui_vars, feedback_messages, cursor_pos,
                    world_vars, esc_count >>

\* the loop is left: pygame.quit(), sys.exit()
LoopExit ==
    /\ pc = "loop"
    /\ ~running
    /\ pc' = "exited"
    /\ event' = NoEvent
    /\ locals' = NoLocals
    /\ calls' = << >>
    /\ UNCHANGED << game_vars, dt, ui_vars, feedback_messages, cursor_pos,
                    world_vars, pending, esc_count >>

----------------------------------------------------------------------------
(* The frame loop with every kind of event, in a world that starts empty   *)
(* and gets its buildings by placement                                     *)

SomeNearbyLists == { << >>, << NearbyObject("building", "Markt") >> }
PlacementSites == { Building(30, 0, 0, "Markt") }

Init == InitGame(<< >>, StartPosition)

KeyEscape == KeyDown("K_ESCAPE", SomeNearbyLists)
KeyShip == \E key \in {"K_1", "K_2", "K_3"} : KeyDown(key, SomeNearbyLists)
KeySpace == KeyDown("K_SPACE", SomeNearbyLists)
KeyI == KeyDown("K_i", SomeNearbyLists)
KeyB == KeyDown("K_b", SomeNearbyLists)
KeyE == KeyDown("K_e", SomeNearbyLists)
KeyOther == KeyDown("K_w", SomeNearbyLists)
Click == MouseButtonDown(PlacementSites)
Tick == Update({2}, {StartPosition}, SomeNearbyLists)

Next ==
    \/ LoopEnter
    \/ Quit
    \/ KeyEscape
    \/ KeyShip
    \/ KeySpace
    \/ KeyI
    \/ KeyB
    \/ KeyE
    \/ KeyOther
    \/ Click
    \/ MouseMotion
    \/ OtherEvent
    \/ EndEvents
    \/ Tick
    \/ Render
    \/ LoopExit

Spec == Init /\ [][Next]_vars

----------------------------------------------------------------------------
(* The interact key with every kind of nearby object *)

KeyEAny == KeyDown("K_e", NearbyLists)
TickNearby == Update({2}, {StartPosition}, NearbyLists)

NextInteract ==
    \/ LoopEnter
    \/ KeyEscape
    \/ KeyEAny
    \/ EndEvents
    \/ TickNearby
    \/ Render

SpecInteract == Init /\ [][NextInteract]_vars

----------------------------------------------------------------------------
(* The nearby-building key in every world of up to MaxBuildings buildings, *)
(* the player walking between two positions                                *)

InitScan == \E bs \in WorldsUpTo(MaxBuildings) : InitGame(bs, StartPosition)

Walk == Update({2}, PlayerPositions, { << >> })

NextScan ==
    \/ LoopEnter
    \/ KeyEscape
    \/ KeyB
    \/ Click
    \/ EndEvents
    \/ Walk
    \/ Render

SpecScan == InitScan /\ [][NextScan]_vars

----------------------------------------------------------------------------
(* Every kind of event next to one building; no building can be placed     *)

InitRoute == InitGame(<< Building(30, 0, 0, "Markt") >>, StartPosition)

ClickPanel == MouseButtonDown({})

NextRoute ==
    \/ LoopEnter
    \/ Quit
    \/ KeyEscape
    \/ KeyShip
    \/ KeySpace
    \/ KeyI
    \/ KeyB
    \/ KeyE
    \/ KeyOther
    \/ ClickPanel
    \/ MouseMotion
    \/ OtherEvent
    \/ EndEvents
    \/ Tick
    \/ Render
    \/ LoopExit

SpecRoute == InitRoute /\ [][NextRoute]_vars

----------------------------------------------------------------------------
(* Frames of both lengths, with messages pushed by the interact key *)

TickFrame == Update(FrameTimes, {StartPosition}, SomeNearbyLists)

NextFrame ==
    \/ LoopEnter
    \/ KeyEscape
    \/ KeyE
    \/ EndEvents
    \/ TickFrame
    \/ Render

SpecFrame == Init /\ [][NextFrame]_vars

----------------------------------------------------------------------------
(* The frame loop until it is left: every step of Game.run that can be     *)
(* taken is taken eventually                                               *)

TickIdle == Update({2}, {StartPosition}, { << >> })

NextQuit ==
    \/ LoopEnter
    \/ Quit
    \/ KeyEscape
    \/ KeyE
    \/ OtherEvent
    \/ EndEvents
    \/ TickIdle
    \/ Render
    \/ LoopExit

SpecQuit == Init /\ [][NextQuit]_vars /\ WF_vars(NextQuit)

----------------------------------------------------------------------------
(* Properties *)

\* the event handled by the last step
Handled(type, key) == event.type = type /\ event.key = key

\* the messages the last step handed to ui.add_feedback_message, in order
FeedbackCalls == SelectSeq(calls, LAMBDA c : c.op = "ui.add_feedback_message")
Pushed == [i \in 1..Len(FeedbackCalls) |-> <<FeedbackCalls[i].text, FeedbackCalls[i].kind>>]

\* the message is the newest of the queue
Newest(text, kind) ==
    /\ feedback_messages # << >>
    /\ feedback_messages[Len(feedback_messages)] = FeedbackMessage(text, kind)

\* the planar distance of the claims, squared
PlanarSq(p, b) == (b.x - p.x) * (b.x - p.x) + (b.z - p.z) * (b.z - p.z)
RadiusSq == 50 * 50

\* C1: the mouse is captured and hidden exactly while game_state is
\* "playing", and released and visible otherwise, in the initial state and
\* after every event
MouseCaptureInvariant ==
    IF game_state = "playing"
    THEN event_grab /\ ~mouse_visible
    ELSE ~event_grab /\ mouse_visible

\* the second K_ESCAPE of a run has just been handled: the game is resumed
\* and the mouse captured again
MouseRecaptured ==
    /\ event.type = "KEYDOWN" /\ event.key = "K_ESCAPE"
    /\ event.state = "paused"
    /\ game_state = "playing" /\ event_grab /\ ~mouse_visible

\* game_state follows the parity of the K_ESCAPE keydowns
EscapeParity ==
    /\ game_state \in {"playing", "paused"}
    /\ (game_state = "playing") <=> (esc_count = 0)

\* a step that handles anything but a K_ESCAPE keydown keeps game_state
EscapeOnly ==
    [][ ~(event'.type = "KEYDOWN" /\ event'.key = "K_ESCAPE")
        => game_state' = game_state ]_vars

\* C2: game_state is "playing" after an even number of K_ESCAPE keydowns and
\* "paused" after an odd number; nothing else changes it and "menu" is never
\* reached
ModeDrivenByEscape == []EscapeParity /\ EscapeOnly

\* an event other than K_ESCAPE was handled while paused, after an odd
\* number of K_ESCAPE keydowns
PausedAfterOtherEvent ==
    /\ event.type \in {"KEYDOWN", "MOUSEBUTTONDOWN", "MOUSEMOTION", "QUIT"}
    /\ event.key # "K_ESCAPE"
    /\ event.state = "paused"
    /\ game_state = "paused" /\ esc_count = 1

----------------------------------------------------------------------------

\* the table of interaction outcomes: kind of nearby_objects[0], its building
\* type ("other" for a type outside the four named ones), the result of
\* player.interact(), and the message (naming the type or not) with its
\* severity
Row(kind, building, success, text, named, severity) ==
    [kind |-> kind, building |-> building, success |-> success, text |-> text,
     named |-> named, severity |-> severity]

OutcomeTable ==
    { Row("resource", "-", FALSE, "Benoetige Gebaeude fuer {}!", TRUE, "error"),
      Row("building", "Markt", TRUE, "Ressourcen verkauft!", FALSE, "success"),
      Row("building", "Markt", FALSE, "Keine Ressourcen zum Verkaufen!", FALSE, "warning"),
      Row("building", "Raffinerie", TRUE, "Oel zu Kraftstoff verarbeitet!", FALSE, "success"),
      Row("building", "Raffinerie", FALSE, "Benoetige Oel im Frachtraum!", FALSE, "warning"),
      Row("building", "Oelplattform", TRUE, "Oel abgeholt!", FALSE, "success"),
      Row("building", "Oelplattform", FALSE, "Frachtraum voll!", FALSE, "warning"),
      Row("building", "Kobaltanreicherung", TRUE, "Kobalt verarbeitet!", FALSE, "success"),
      Row("building", "Kobaltanreicherung", FALSE, "Benoetige Kobalt im Frachtraum!", FALSE, "warning"),
      Row("building", "other", TRUE, "Mit {} interagiert!", TRUE, "success"),
      Row("building", "other", FALSE, "Interaktion nicht moeglich!", FALSE, "error") }

TableEntries(obj, success) ==
    LET building == IF obj.type # "building" THEN "-"
                    ELSE IF obj.object_type \in {"Markt", "Raffinerie", "Oelplattform",
                                                 "Kobaltanreicherung"}
                    THEN obj.object_type
                    ELSE "other"
    IN  { <<Text(r.text, IF r.named THEN obj.object_type ELSE ""), r.severity>> :
            r \in { q \in OutcomeTable : /\ q.kind = obj.type
                                         /\ q.building = building
                                         /\ q.success = success } }

\* C3: an E keydown in Playing with a non-empty nearby_objects appends exactly
\* the message and severity the outcome table gives for nearby_objects[0] and
\* the result of player.interact(), and nothing for a resource and true
InteractionOutcomeTable ==
    (Handled("KEYDOWN", "K_e") /\ event.state = "playing" /\ nearby_objects # << >>)
    => LET want == TableEntries(nearby_objects[1], locals.interact_result)
       IN  /\ Cardinality(want) <= 1
           /\ Len(Pushed) = Cardinality(want)
           /\ \A i \in 1..Len(Pushed) :
                 /\ Pushed[i] \in want
                 /\ Newest(Pushed[i][1], Pushed[i][2])
           /\ (nearby_objects[1].type = "resource" /\ locals.interact_result)
                 => Pushed = << >>

\* E was handled next to a building of a type outside the named four, and
\* the interaction failed
UnknownBuildingRefused ==
    /\ Handled("KEYDOWN", "K_e") /\ event.state = "playing"
    /\ nearby_objects # << >>
    /\ nearby_objects[1] = NearbyObject("building", "Werft")
    /\ ~locals.interact_result
    /\ Newest(Text("Interaktion nicht moeglich!", ""), "error")

----------------------------------------------------------------------------

\* a click was handed to the UI while building_mode was set
PlacementClick ==
    /\ Handled("MOUSEBUTTONDOWN", "")
    /\ locals.forwarded
    /\ event.flags[2]

\* C4: a click in placement mode that places the building (afterwards
\* building_mode is false and building_type_to_place is None) makes
\* handle_events append a Success message naming the placed type
PlacementSuccessFeedback ==
    (PlacementClick /\ ~building_mode /\ building_type_to_place = None)
    => \E i \in 1..Len(Pushed) :
          /\ Pushed[i][2] = "success"
          /\ Pushed[i][1].fmt = "{} platziert!"
          /\ Pushed[i][1].arg \in PlaceableTypes

\* C5: a click in placement mode that is rejected (afterwards building_mode
\* and the pending type are still set) keeps placement mode and the
\* selection and appends the Error message "cannot place building here"
PlacementFailureFeedback ==
    (PlacementClick /\ building_mode /\ building_type_to_place # None)
    => /\ selected_building_type # None
       /\ Pushed = << <<Text("Gebaeude kann hier nicht platziert werden", ""), "error">> >>

\* C6: the click handling appends a Success placement message, and resets
\* selected_building_type, only if building_mode is false and
\* building_type_to_place is None after ui.handle_mouse_click returned
SuccessOnlyWhenBothCleared ==
    [][ (event'.type = "MOUSEBUTTONDOWN" /\ locals'.forwarded)
        => ( ( \/ \E i \in 1..Len(Pushed') : Pushed'[i][2] = "success"
               \/ (selected_building_type # None /\ selected_building_type' = None) )
             => (~building_mode' /\ building_type_to_place' = None) ) ]_vars

\* a click in placement mode left the flag cleared and the type pending, and
\* no message was appended
AmbiguousClickSilent ==
    /\ PlacementClick
    /\ ~building_mode
    /\ building_type_to_place # None
    /\ Pushed = << >>

----------------------------------------------------------------------------

\* B was handled in Playing
ScanDone == Handled("KEYDOWN", "K_b") /\ event.state = "playing"

\* the building the scan selected was handed to the UI
Selected(n) ==
    /\ n # 0
    /\ locals.nearest_building = n
    /\ \E i \in 1..Len(calls) :
          calls[i].op = "ui.toggle_building_interaction" /\ calls[i].n = n

\* C7: a building selected by the B key is at planar (x,z) distance at most
\* 50 from the player, and no building of world.buildings is strictly closer
\* in the plane; the vertical coordinate plays no part
NearestSelected ==
    ScanDone =>
       \A n \in 1..Len(buildings) :
          Selected(n) =>
             /\ PlanarSq(player, buildings[n]) <= RadiusSq
             /\ \A j \in 1..Len(buildings) :
                   PlanarSq(player, buildings[j]) >= PlanarSq(player, buildings[n])

\* the selected building is nearer in the plane than another one in range
\* which stands at another height
NearestAmongSeveral ==
    /\ ScanDone
    /\ \E n, j \in 1..Len(buildings) :
          /\ Selected(n)
          /\ buildings[j].y # buildings[n].y
          /\ PlanarSq(player, buildings[j]) > PlanarSq(player, buildings[n])
          /\ PlanarSq(player, buildings[j]) < RadiusSq

\* the warning of the B key
NoBuildingNearby == <<Text("Kein Gebaeude in der Naehe", ""), "warning">>

\* C8: B in Playing appends the Warning "no building nearby" and leaves the UI
\* flags and the game mode unchanged if and only if no building is at planar
\* distance <= 50 from the player
WarningIffNoneWithinRadius ==
    ScanDone =>
       ( ( /\ Pushed = << NoBuildingNearby >>
           /\ Flags = event.flags
           /\ game_state = event.state )
         <=> ~ \E j \in 1..Len(buildings) : PlanarSq(player, buildings[j]) <= RadiusSq )

FirstOfEquals ==
    ScanDone =>
       \A n \in 1..Len(buildings) :
          Selected(n) =>
             \A j \in 1..Len(buildings) :
                PlanarSq(player, buildings[j]) = PlanarSq(player, buildings[n]) => n <= j

\* the selected building has a later building at the same distance
TieKeptFirst ==
    /\ ScanDone
    /\ \E n, j \in 1..Len(buildings) :
          /\ Selected(n)
          /\ n < j
          /\ PlanarSq(player, buildings[j]) = PlanarSq(player, buildings[n])
          /\ buildings[j] # buildings[n]

----------------------------------------------------------------------------

\* the last step called the operation
Invoked(op) == \E i \in 1..Len(calls) : calls[i].op = op

\* one of the four UI flags of `flags` is set
AnyFlag(flags) == flags[1] \/ flags[2] \/ flags[3] \/ flags[4]

\* the statement of C11 as it stands: a click is handed to
\* ui.handle_mouse_click whenever a UI flag is set, in every game mode, and
\* is ignored when none is set
ClickForwardedInEveryMode ==
    Handled("MOUSEBUTTONDOWN", "")
    => IF AnyFlag(event.flags)
       THEN Invoked("ui.handle_mouse_click")
       ELSE calls = << >>

\* C11: a click handled while game_state is "playing" is handed to
\* ui.handle_mouse_click if one of building_menu_open, building_mode,
\* ship_inventory_open, building_interaction_open is set; a click with none
\* of them set, and every click while paused, is ignored: no UI, player or
\* world operation is invoked
ClickForwardedWhilePlaying ==
    Handled("MOUSEBUTTONDOWN", "")
    => IF event.state = "playing" /\ AnyFlag(event.flags)
       THEN /\ calls # << >>
            /\ calls[1].op = "ui.handle_mouse_click"
            /\ locals.forwarded
       ELSE /\ calls = << >>
            /\ ~locals.forwarded
            /\ Flags = event.flags

\* a click met an open panel while the game was paused and was ignored
ClickIgnoredWhilePaused ==
    /\ Handled("MOUSEBUTTONDOWN", "")
    /\ event.state = "paused"
    /\ AnyFlag(event.flags)
    /\ calls = << >>

\* C12: a pointer motion is handed to player.handle_mouse_movement exactly
\* when game_state is "playing" and none of building_menu_open,
\* ship_inventory_open, building_interaction_open is set; building_mode alone
\* does not suppress it, and no motion reaches the player while paused
CameraLookGating ==
    Handled("MOUSEMOTION", "")
    => /\ Invoked("player.handle_mouse_movement")
          <=> ( /\ event.state = "playing"
                /\ ~event.flags[1] /\ ~event.flags[3] /\ ~event.flags[4] )
       /\ \A i \in 1..Len(calls) : calls[i].op = "player.handle_mouse_movement"
       /\ Len(calls) <= 1

\* the camera followed the mouse in placement mode
LookWhilePlacing ==
    /\ Handled("MOUSEMOTION", "")
    /\ event.state = "playing"
    /\ event.flags = <<FALSE, TRUE, FALSE, FALSE>>
    /\ Invoked("player.handle_mouse_movement")

\* C13: E in Playing while player.nearby_objects is empty appends exactly one
\* Info message "nothing nearby" and leaves the game mode, the four UI flags,
\* the pending building type, the player and the world as they are
NothingNearbyFrame ==
    [][ ( /\ event'.type = "KEYDOWN" /\ event'.key = "K_e"
          /\ event'.state = "playing"
          /\ nearby_objects = << >> /\ nearby_objects' = << >> )
        => /\ Pushed' = << <<Text("Nichts in der Naehe!", ""), "info">> >>
           /\ feedback_messages' =
                 add_feedback_message(feedback_messages,
                                      Text("Nichts in der Naehe!", ""), "info")
           /\ UNCHANGED << game_state, flag_vars, building_type_to_place,
                           player, buildings >> ]_vars

\* E was handled with nothing nearby while a panel was open
NothingNearbyTold ==
    /\ Handled("KEYDOWN", "K_e") /\ event.state = "playing"
    /\ nearby_objects = << >>
    /\ AnyFlag(event.flags)
    /\ Newest(Text("Nichts in der Naehe!", ""), "info")

\* C14: within one tick the delta time is computed once, and player.move,
\* world.update, resource_manager.update and ui.update_feedback_messages all
\* receive that value
UniformTimeStep ==
    pc = "render"
    => /\ \A i \in 1..Len(calls) : calls[i].n = dt
       /\ game_state = "playing"
             => [i \in 1..Len(calls) |-> calls[i].op]
                = << "player.move", "world.update", "resource_manager.update",
                     "ui.update_feedback_messages" >>

\* a short frame was updated, and a message outlived it
ShortFrameUpdated ==
    /\ pc = "render"
    /\ dt = 1
    /\ Len(calls) = 4
    /\ feedback_messages # << >>

\* the ship slot of a key
Slot(key) == CASE key = "K_1" -> 0 [] key = "K_2" -> 1 [] key = "K_3" -> 2

\* C15: in Playing a keydown of 1, 2 or 3 calls player.switch_ship(0), (1) or
\* (2), whatever the UI flags are, and does nothing else
ShipSlotRouting ==
    [][ ( /\ event'.type = "KEYDOWN" /\ event'.key \in {"K_1", "K_2", "K_3"}
          /\ event'.state = "playing" )
        => /\ calls' = << Call("player.switch_ship", NoText, "", Slot(event'.key)) >>
           /\ UNCHANGED << game_vars, ui_vars, feedback_messages, world_vars >> ]_vars

\* the second slot was chosen while a panel was open
ShipSwitchedPanelOpen ==
    /\ Handled("KEYDOWN", "K_2") /\ event.state = "playing"
    /\ AnyFlag(event.flags)
    /\ calls # << >> /\ calls[1].op = "player.switch_ship" /\ calls[1].n = 1

\* the keys and event types handle_events knows
KnownKeys == {"K_ESCAPE", "K_1", "K_2", "K_3", "K_SPACE", "K_i", "K_b", "K_e"}
KnownEvents == {"QUIT", "KEYDOWN", "MOUSEBUTTONDOWN", "MOUSEMOTION"}

\* C16: a keydown of a key outside ESC, 1, 2, 3, SPACE, I, B, E and an event
\* of a type outside QUIT, KEYDOWN, MOUSEBUTTONDOWN, MOUSEMOTION change
\* neither game_state, the mouse capture, the UI flags nor running, invoke no
\* operation and append no feedback message
UnknownEventsDropped ==
    [][ ( \/ event'.type = "KEYDOWN" /\ event'.key \notin KnownKeys
          \/ event'.type \notin KnownEvents \cup {"none"} )
        => /\ calls' = << >>
           /\ UNCHANGED << game_vars, flag_vars, feedback_messages >> ]_vars

\* an unknown key was handled in Playing while a panel was open
UnknownKeyDropped ==
    /\ Handled("KEYDOWN", "K_w") /\ event.state = "playing"
    /\ AnyFlag(event.flags)
    /\ calls = << >>

\* C17: while game_state is "paused" no keydown but ESC, no click and no
\* motion invokes an operation of the player, the world or a UI panel, and
\* Game.update calls none of player.move, world.update,
\* resource_manager.update, ui.update_feedback_messages; no feedback message
\* is appended or decayed
PauseFreezes ==
    [][ (game_state = "paused" /\ game_state' = "paused")
        => /\ UNCHANGED << feedback_messages, ui_vars, world_vars >>
           /\ pc # "render" => calls' = << >>
           /\ \A i \in 1..Len(calls') : calls'[i].op \in {"world.render", "ui.render"} ]_vars

\* Game.update ran while paused and the message in the queue was kept
FrozenUpdate ==
    /\ game_state = "paused"
    /\ pc = "render"
    /\ calls = << >>
    /\ feedback_messages # << >>

\* C18: an ESC keydown changes game_state and the mouse capture only: the UI
\* flags and the pending building type are as before, and no ship switch,
\* menu toggle, proximity query or interaction is triggered, in either
\* direction of the toggle
EscapeOnlyToggles ==
    [][ (event'.type = "KEYDOWN" /\ event'.key = "K_ESCAPE")
        => /\ game_state' # game_state
           /\ calls' = << >>
           /\ locals' = NoLocals
           /\ UNCHANGED << running, ui_vars, feedback_messages, world_vars >> ]_vars

\* the game was resumed with the building menu open
ResumedWithMenuOpen ==
    /\ Handled("KEYDOWN", "K_ESCAPE")
    /\ event.state = "paused" /\ game_state = "playing"
    /\ event.flags[1] /\ building_menu_open

\* the number of calls of player.interact() in the last step
Interactions == Len(SelectSeq(calls, LAMBDA c : c.op = "player.interact"))

\* C19: an E keydown in Playing calls player.interact() exactly once, before
\* nearby_objects is read and also when it is empty; the message is chosen
\* from nearby_objects[0] as it is after the call; no other event, and no E
\* keydown while paused, calls player.interact()
OneInteractPerPress ==
    IF Handled("KEYDOWN", "K_e") /\ event.state = "playing"
    THEN /\ Interactions = 1
         /\ calls[1].op = "player.interact"
         /\ IF nearby_objects = << >>
            THEN Pushed = << <<Text("Nichts in der Naehe!", ""), "info">> >>
            ELSE /\ \A i \in 1..Len(Pushed) :
                       Pushed[i] \in TableEntries(nearby_objects[1], locals.interact_result)
                 /\ Len(Pushed) =
                       Cardinality(TableEntries(nearby_objects[1], locals.interact_result))
    ELSE Interactions = 0

\* E was handled next to a market and the sale succeeded
SoldAtMarket ==
    /\ Handled("KEYDOWN", "K_e") /\ event.state = "playing"
    /\ Interactions = 1
    /\ nearby_objects = << NearbyObject("building", "Markt") >>
    /\ locals.interact_result
    /\ Newest(Text("Ressourcen verkauft!", ""), "success")

\* once `running` is false, the rest of the tick: the events left of the
\* poll, update, render, and the exit from the loop
LastTick ==
    [][ ~running
        => CASE pc = "handle_events" /\ pending > 0 ->
                  /\ pc' = "handle_events"
                  /\ pending' = pending - 1
                  /\ event'.type # "none"
             [] pc = "handle_events" /\ pending = 0 -> pc' = "update"
             [] pc = "update" -> pc' = "render"
             [] pc = "render" -> pc' = "loop"
             [] pc = "loop" -> pc' = "exited"
             [] OTHER -> FALSE ]_vars

\* C20: a QUIT event makes `running` false for good; the events left of the
\* same poll are still handled, update and render run once more, and the
\* loop is left; the frame loop going on, a QUIT is followed by the exit;
\* without a QUIT event the loop is never left
QuitTerminates ==
    /\ [][ ~running => ~running' ]_vars
    /\ [][ (running /\ ~running') => event'.type = "QUIT" ]_vars
    /\ [](pc = "exited" => ~running)
    /\ LastTick
    /\ (~running ~> pc = "exited")

\* the loop was left after a last update
LoopLeft ==
    /\ pc = "exited"
    /\ ~running
    /\ dt = 2

====
